---- MODULE Spec2Model ----
(***************************************************************************)
(* Model of Lib/fontTools/pens/ttGlyphPen.py: the two pens TTGlyphPen      *)
(* (segment protocol) and TTGlyphPointPen (point protocol) built on        *)
(* TTGlyphBasePen, which accumulate points / contours / components and     *)
(* produce a glyf Glyph record in glyph().                                 *)
(*                                                                         *)
(* Numbers.  Python floats are modelled as exact rationals with            *)
(* denominator Unit = 2^16, stored as their integer numerator; the F2Dot14 *)
(* grid is the multiples of Unit / 2^14 = 4.  Python lists are sequences   *)
(* (0-based Python indices are converted where a list is indexed).         *)
(* Optional values ("x is None") are sequences of length 0 (None) or 1.    *)
(***************************************************************************)
EXTENDS Integers, Sequences, FiniteSets, TLC

\* ------------------------------------------------------------------ bounds
\* a drawing session holds at most MaxSession points and pending components
\* together, at most MaxComponents of them components; qCurveTo takes at
\* most MaxQCurve arguments
MaxSession == 3
MaxComponents == 2
MaxQCurve == 2

\* ------------------------------------------------------- numeric helpers
F2Dot14Scale == 2^14
Unit == 4 * F2Dot14Scale
MAX_F2DOT14 == 32767 * (Unit \div F2Dot14Scale)
Two == 2 * Unit
One == Unit

None == << >>
Some(x) == << x >>

Last(seq) == seq[Len(seq)]
Front(seq) == SubSeq(seq, 1, Len(seq) - 1)

\* otRound(v) = int(math.floor(v + 0.5)), v given in 1/Unit
otRound(v) == (2 * v + Unit) \div (2 * Unit)

\* floatToFixedToFloat(v, 14) = otRound(v * 2^14) / 2^14, argument and
\* result in 1/Unit
floatToFixedToFloat(v) ==
    LET q == Unit \div F2Dot14Scale
    IN  ((2 * v + q) \div (2 * q)) * q

\* Python list indexing lst[i]: valid for -len <= i < len
PyValid(lst, i) == (-Len(lst)) <= i /\ i < Len(lst)
PyGet(lst, i) == IF i >= 0 THEN lst[i + 1] ELSE lst[Len(lst) + i + 1]

\* ------------------------------------------------------------ glyph set
\* The external glyph set: known names and, for each, the contours (integer
\* on-curve points) its draw()/drawPoints() replays through the pen.
glyphSet ==
    [ A |-> << << <<0, 0>>, <<1, 0>>, <<1, 1>> >> >>,
      B |-> << << <<1, 1>> >>, << <<0, 0>>, <<2, 0>> >> >> ]

KnownNames == DOMAIN glyphSet

\* Transform(*transformation).transformPoint((x, y)), x and y integers
transformPoint(t, p) ==
    << t[1] * p[1] + t[3] * p[2] + t[5], t[2] * p[1] + t[4] * p[2] + t[6] >>

\* ------------------------------------------------------------- inputs
\* points offered as on-curve points and as off-curve (control) points
Pts == { <<0, 0>>, <<Unit, 0>> }
OffPts == { <<0, 0>> }

\* (baseGlyphName, transformation) pairs offered to addComponent;
\* transformation = (a, b, c, d, dx, dy) in 1/Unit
ClampT == << Two, MAX_F2DOT14 + 1, -Two, (Unit \div 2) + 2,
             10 * Unit + (Unit \div 2), -(Unit \div 2) >>
NearIdentityT == << One + 1, 1, -1, One - 1, Unit, 0 >>
RoundUpT == << MAX_F2DOT14 + 2, -Two, One, MAX_F2DOT14, 0, Unit >>
OverT == << 3 * Unit, Two + 1, 0, One, 0, 0 >>
UnderT == << One, 0, -(3 * Unit), -(Two + 1), 0, 0 >>

CompInputs ==
    { <<"A", ClampT>>, <<"B", NearIdentityT>>, <<"B", RoundUpT>>,
      <<"A", OverT>>, <<"B", UnderT>>, <<"X", OverT>>, <<"X", NearIdentityT>> }

ComponentFlagInputs == {4, 6}

\* ------------------------------------------------------------- state
VARIABLES
    kind,                         \* "TTGlyphPen" or "TTGlyphPointPen"
    handleOverflowingTransforms,  \* constructor flag
    points, types, endPts,        \* self.points, self.types, self.endPts
    endPtsObj,                    \* identity of the list bound to self.endPts
    components,                   \* self.components
    currentPath,                  \* self.currentPath (None or a list)
    lastOp,                       \* name of the most recent call
    raised,                       \* TRUE iff that call raised an exception
    ret,                          \* the Glyph it returned, else None
    sinceClose,                   \* history: points appended since a contour closed
    track,                        \* history: moveTo, lineTo*, closePath in progress
    pre                           \* history: pen fields when glyph() was called

vars == << kind, handleOverflowingTransforms, points, types, endPts,
           endPtsObj, components, currentPath, lastOp, raised, ret,
           sinceClose, track, pre >>

\* the pen object as a record; ok = FALSE once an exception was raised
Self ==
    [ kind |-> kind,
      handleOverflowingTransforms |-> handleOverflowingTransforms,
      points |-> points, types |-> types, endPts |-> endPts,
      endPtsObj |-> endPtsObj,
      components |-> components, currentPath |-> currentPath, ok |-> TRUE ]

Raise(s) == [s EXCEPT !.ok = FALSE]

\* --------------------------------------------------------- TTGlyphBasePen
\* init() that leaves self.components as it is
init_KeepsComponents(s) ==
    [s EXCEPT !.points = << >>, !.endPts = << >>, !.endPtsObj = 1 - @,
              !.types = << >>, !.currentPath = None]

init(s) ==
    [s EXCEPT !.points = << >>, !.endPts = << >>, !.endPtsObj = 1 - @,
              !.types = << >>, !.components = << >>, !.currentPath = None]

\* addComponent that skips a (name, transform) pair already pending
addComponent_Dedups(s, baseGlyphName, transformation) ==
    IF \E i \in 1..Len(s.components) :
          s.components[i] = <<baseGlyphName, transformation>>
    THEN s
    ELSE [s EXCEPT !.components = Append(@, <<baseGlyphName, transformation>>)]

addComponent(s, baseGlyphName, transformation) ==
    [s EXCEPT !.components = Append(@, <<baseGlyphName, transformation>>)]

\* --------------------------------------------------------- TTGlyphPen
_addPoint(s, pt, onCurve) ==
    [s EXCEPT !.points = Append(@, pt), !.types = Append(@, onCurve)]

\* _popPoint() that forgets the flag list
_popPoint_PointsOnly(s) ==
    IF s.points = << >> THEN Raise(s)
    ELSE [s EXCEPT !.points = Front(@)]

_popPoint(s) ==
    IF s.points = << >> THEN Raise(s)
    ELSE IF s.types = << >> THEN Raise([s EXCEPT !.points = Front(@)])
    ELSE [s EXCEPT !.points = Front(@), !.types = Front(@)]

_isClosed(s) ==
    s.points = << >>
    \/ (s.endPts # << >> /\ Last(s.endPts) = Len(s.points) - 1)

lineTo(s, pt) == _addPoint(s, pt, 1)

moveTo(s, pt) == IF ~_isClosed(s) THEN Raise(s) ELSE _addPoint(s, pt, 1)

curveTo(s, pts) == Raise(s)

RECURSIVE AddOffCurves(_, _)
AddOffCurves(s, pts) ==
    IF pts = << >> THEN s
    ELSE AddOffCurves(_addPoint(s, pts[1], 0), Tail(pts))

\* qCurveTo without the "is not None" test on its last argument
qCurveTo_NoNoneTest(s, pts) ==
    IF ~(Len(pts) >= 1) THEN Raise(s)
    ELSE _addPoint(AddOffCurves(s, Front(pts)), Last(pts), 1)

\* the last element of pts is None (<< >>) when there is no on-curve point
qCurveTo(s, pts) ==
    IF ~(Len(pts) >= 1) THEN Raise(s)
    ELSE LET t == AddOffCurves(s, Front(pts))
         IN  IF Last(pts) # None THEN _addPoint(t, Last(pts), 1) ELSE t

\* closePath() whose anchor test lacks "endPt == 0"
closePath_NoFirstAnchor(s) ==
    LET endPt == Len(s.points) - 1
        startPt == IF s.endPts # << >> THEN Last(s.endPts) + 1 ELSE 0
    IN  IF s.endPts # << >> /\ endPt = Last(s.endPts) + 1
        THEN _popPoint(s)
        ELSE IF ~PyValid(s.points, startPt) \/ ~PyValid(s.points, endPt)
        THEN Raise(s)
        ELSE IF PyGet(s.points, startPt) = PyGet(s.points, endPt)
        THEN LET t == _popPoint(s)
             IN  IF t.ok THEN [t EXCEPT !.endPts = Append(@, endPt - 1)]
                 ELSE t
        ELSE [s EXCEPT !.endPts = Append(@, endPt)]

closePath(s) ==
    LET endPt == Len(s.points) - 1
        startPt == IF s.endPts # << >> THEN Last(s.endPts) + 1 ELSE 0
    IN  IF endPt = 0 \/ (s.endPts # << >> /\ endPt = Last(s.endPts) + 1)
        THEN _popPoint(s)
        ELSE IF ~PyValid(s.points, startPt) \/ ~PyValid(s.points, endPt)
        THEN Raise(s)
        ELSE IF PyGet(s.points, startPt) = PyGet(s.points, endPt)
        THEN LET t == _popPoint(s)
             IN  IF t.ok THEN [t EXCEPT !.endPts = Append(@, endPt - 1)]
                 ELSE t
        ELSE [s EXCEPT !.endPts = Append(@, endPt)]

TTGlyphPen_endPath(s) == closePath(s)

\* glyphSet[glyphName].draw(tpen): every contour is replayed as
\* moveTo, lineTo ..., closePath through TransformPen(self, transformation)
RECURSIVE LineToAll(_, _, _)
LineToAll(s, t, pts) ==
    IF ~s.ok \/ pts = << >> THEN s
    ELSE LineToAll(lineTo(s, transformPoint(t, pts[1])), t, Tail(pts))

DrawContour(s, t, contour) ==
    LET a == moveTo(s, transformPoint(t, contour[1]))
        b == IF a.ok THEN LineToAll(a, t, Tail(contour)) ELSE a
    IN  IF b.ok THEN closePath(b) ELSE b

RECURSIVE draw(_, _, _)
draw(s, t, contours) ==
    IF ~s.ok \/ contours = << >> THEN s
    ELSE draw(DrawContour(s, t, contours[1]), t, Tail(contours))

TTGlyphPen_decompose(s, glyphName, transformation) ==
    draw(s, transformation, glyphSet[glyphName])

\* --------------------------------------------------------- TTGlyphPointPen
\* beginPath() without its assert
beginPath_NoAssert(s) == [s EXCEPT !.currentPath = Some(<< >>)]

beginPath(s) ==
    IF s.currentPath # None THEN Raise(s)
    ELSE [s EXCEPT !.currentPath = Some(<< >>)]

\* endPath recording an end-index for an empty sub-path too
TTGlyphPointPen_endPath_AlwaysRecords(s) ==
    IF s.currentPath = None THEN Raise(s)
    ELSE [s EXCEPT !.endPts = Append(@, Len(s.points) - 1),
                   !.currentPath = None]

TTGlyphPointPen_endPath(s) ==
    IF s.currentPath = None THEN Raise(s)
    ELSE IF s.currentPath[1] # << >>
         THEN [s EXCEPT !.endPts = Append(@, Len(s.points) - 1),
                        !.currentPath = None]
         ELSE [s EXCEPT !.currentPath = None]

\* addPoint that leaves the sub-path buffer alone
addPoint_SkipsCurrentPath(s, pt, segmentType) ==
    IF s.currentPath = None THEN Raise(s)
    ELSE IF segmentType \notin {"offcurve", "qcurve", "line"} THEN Raise(s)
    ELSE [s EXCEPT !.types = Append(@, IF segmentType = "offcurve" THEN 0 ELSE 1),
                   !.points = Append(@, pt)]

\* addPoint that appends the point before it rejects an unsupported role
addPoint_AppendsBeforeCheck(s, pt, segmentType) ==
    IF s.currentPath = None THEN Raise(s)
    ELSE IF segmentType \notin {"offcurve", "qcurve", "line"}
    THEN Raise([s EXCEPT !.currentPath = Some(Append(@[1], pt)),
                         !.points = Append(@, pt)])
    ELSE [s EXCEPT !.types = Append(@, IF segmentType = "offcurve" THEN 0 ELSE 1),
                   !.currentPath = Some(Append(@[1], pt)),
                   !.points = Append(@, pt)]

addPoint(s, pt, segmentType) ==
    IF s.currentPath = None THEN Raise(s)
    ELSE IF segmentType \notin {"offcurve", "qcurve", "line"} THEN Raise(s)
    ELSE [s EXCEPT !.types = Append(@, IF segmentType = "offcurve" THEN 0 ELSE 1),
                   !.currentPath = Some(Append(@[1], pt)),
                   !.points = Append(@, pt)]

\* glyphSet[glyphName].drawPoints(tpen): every contour is replayed as
\* beginPath, addPoint(pt, "line") ..., endPath through TransformPointPen
RECURSIVE AddPointAll(_, _, _)
AddPointAll(s, t, pts) ==
    IF ~s.ok \/ pts = << >> THEN s
    ELSE AddPointAll(addPoint(s, transformPoint(t, pts[1]), "line"), t, Tail(pts))

DrawPointsContour(s, t, contour) ==
    LET a == beginPath(s)
        b == IF a.ok THEN AddPointAll(a, t, contour) ELSE a
    IN  IF b.ok THEN TTGlyphPointPen_endPath(b) ELSE b

RECURSIVE drawPoints(_, _, _)
drawPoints(s, t, contours) ==
    IF ~s.ok \/ contours = << >> THEN s
    ELSE drawPoints(DrawPointsContour(s, t, contours[1]), t, Tail(contours))

TTGlyphPointPen_decompose(s, glyphName, transformation) ==
    drawPoints(s, transformation, glyphSet[glyphName])

_decompose(s, glyphName, transformation) ==
    IF s.kind = "TTGlyphPen"
    THEN TTGlyphPen_decompose(s, glyphName, transformation)
    ELSE TTGlyphPointPen_decompose(s, glyphName, transformation)

\* --------------------------------------------- _buildComponents / _glyph
\* the overflow test run over the components known to the glyph set only
Overflowing_KnownOnly(comps) ==
    \E i \in 1..Len(comps) : \E k \in 1..4 :
        /\ comps[i][1] \in KnownNames
        /\ (comps[i][2][k] > Two \/ comps[i][2][k] < -Two)

\* the overflow test without its "s < -2" half
Overflowing_AboveOnly(comps) ==
    \E i \in 1..Len(comps) : \E k \in 1..4 : comps[i][2][k] > Two

\* any(s > 2 or s < -2 for (name, t) in self.components for s in t[:4])
Overflowing(comps) ==
    \E i \in 1..Len(comps) : \E k \in 1..4 :
        comps[i][2][k] > Two \/ comps[i][2][k] < -Two

Quantize(transformation) ==
    [k \in 1..4 |-> floatToFixedToFloat(transformation[k])]

\* the clamp with +2.0 itself as the ceiling
Clamp_ToTwo(transformation) ==
    [k \in 1..4 |-> IF MAX_F2DOT14 < transformation[k] /\ transformation[k] <= Two
                    THEN Two ELSE transformation[k]]

Clamp(transformation) ==
    [k \in 1..4 |-> IF MAX_F2DOT14 < transformation[k] /\ transformation[k] <= Two
                    THEN MAX_F2DOT14 ELSE transformation[k]]

\* the component record with the clamp applied whatever the pen's setting
MakeComponent_AlwaysClamps(s, glyphName, transformation, componentFlags) ==
    LET q == Quantize(transformation)
        c == IF \E k \in 1..4 : MAX_F2DOT14 < q[k] /\ q[k] <= Two
             THEN Clamp(q) ELSE q
    IN  [ glyphName |-> glyphName,
          x |-> otRound(transformation[5]),
          y |-> otRound(transformation[6]),
          transform |-> IF q # << One, 0, 0, One >>
                        THEN Some(<< <<c[1], c[2]>>, <<c[3], c[4]>> >>)
                        ELSE None,
          flags |-> componentFlags ]

\* the component record with the identity test made on the raw values
MakeComponent_RawIdentity(s, glyphName, transformation, componentFlags) ==
    LET q == Quantize(transformation)
        c == IF s.handleOverflowingTransforms
                /\ \E k \in 1..4 : MAX_F2DOT14 < q[k] /\ q[k] <= Two
             THEN Clamp(q) ELSE q
    IN  [ glyphName |-> glyphName,
          x |-> otRound(transformation[5]),
          y |-> otRound(transformation[6]),
          transform |-> IF << transformation[1], transformation[2],
                              transformation[3], transformation[4] >>
                           # << One, 0, 0, One >>
                        THEN Some(<< <<c[1], c[2]>>, <<c[3], c[4]>> >>)
                        ELSE None,
          flags |-> componentFlags ]

\* the GlyphComponent built for a component that is kept
MakeComponent(s, glyphName, transformation, componentFlags) ==
    LET q == Quantize(transformation)
        c == IF s.handleOverflowingTransforms
                /\ \E k \in 1..4 : MAX_F2DOT14 < q[k] /\ q[k] <= Two
             THEN Clamp(q) ELSE q
    IN  [ glyphName |-> glyphName,
          x |-> otRound(transformation[5]),
          y |-> otRound(transformation[6]),
          transform |-> IF q # << One, 0, 0, One >>
                        THEN Some(<< <<c[1], c[2]>>, <<c[3], c[4]>> >>)
                        ELSE None,
          flags |-> componentFlags ]

\* the loop of _buildComponents from its i-th pending component on;
\* out = components built so far, dec = names handed to _decompose so far
RECURSIVE BuildLoop(_, _, _, _, _, _)
BuildLoop(s, i, overflowing, componentFlags, out, dec) ==
    IF ~s.ok \/ i > Len(s.components)
    THEN [s |-> s, components |-> out, decomposed |-> dec]
    ELSE LET glyphName == s.components[i][1]
             transformation == s.components[i][2]
         IN  IF glyphName \notin KnownNames
             THEN BuildLoop(s, i + 1, overflowing, componentFlags, out, dec)
             ELSE IF s.points # << >>
                     \/ (s.handleOverflowingTransforms /\ overflowing)
             THEN BuildLoop(_decompose(s, glyphName, transformation), i + 1,
                            overflowing, componentFlags, out,
                            Append(dec, glyphName))
             ELSE BuildLoop(s, i + 1, overflowing, componentFlags,
                            Append(out, MakeComponent(s, glyphName,
                                            transformation, componentFlags)),
                            dec)

_buildComponents(s, componentFlags) ==
    BuildLoop(s, 1, Overflowing(s.components), componentFlags, << >>, << >>)

\* GlyphCoordinates(self.points).toInt()
toInt(pts) == [i \in 1..Len(pts) |-> << otRound(pts[i][1]), otRound(pts[i][2]) >>]

\* result: the pen after the call and the returned Glyph (None if it raised);
\* decomposed is the list of names _buildComponents handed to _decompose
_glyph(s, componentFlags) ==
    LET b == _buildComponents(s, componentFlags)
        t == b.s
    IN  IF ~t.ok THEN [s |-> t, glyph |-> None]
        ELSE [ s |-> init(t),
               glyph |-> Some(
                 [ coordinates |-> toInt(t.points),
                   endPtsOfContours |-> t.endPts,
                   endPtsOfContoursObj |-> t.endPtsObj,
                   flags |-> t.types,
                   components |-> b.components,
                   numberOfContours |-> IF b.components # << >> THEN -1
                                        ELSE Len(t.endPts),
                   program |-> IF b.components # << >> THEN None
                               ELSE Some(<< >>),
                   decomposed |-> b.decomposed ]) ]

TTGlyphPen_glyph(s, componentFlags) ==
    IF ~_isClosed(s) THEN [s |-> Raise(s), glyph |-> None]
    ELSE _glyph(s, componentFlags)

TTGlyphPointPen_glyph(s, componentFlags) ==
    IF s.currentPath # None THEN [s |-> Raise(s), glyph |-> None]
    ELSE _glyph(s, componentFlags)

\* ------------------------------------------------------------- actions
Init ==
    /\ kind \in {"TTGlyphPen", "TTGlyphPointPen"}
    /\ handleOverflowingTransforms \in BOOLEAN
    /\ points = << >> /\ endPts = << >> /\ types = << >>
    /\ endPtsObj = 0
    /\ components = << >>
    /\ currentPath = None
    /\ lastOp = "__init__" /\ raised = FALSE /\ ret = None
    /\ sinceClose = 0 /\ track = None /\ pre = None

\* the pen after a call that ended in record r
Commit(r, op) ==
    /\ Len(r.points) + Len(r.components) <= MaxSession
    /\ points' = r.points /\ types' = r.types /\ endPts' = r.endPts
    /\ endPtsObj' = r.endPtsObj
    /\ components' = r.components /\ currentPath' = r.currentPath
    /\ lastOp' = op /\ raised' = ~r.ok
    /\ UNCHANGED << kind, handleOverflowingTransforms >>

\* a call that returns nothing and appends points
Drawn(r) ==
    /\ ret' = None /\ pre' = None
    /\ sinceClose' = sinceClose + (Len(r.points) - Len(points))

\* a call that ends a contour
Closed(r) ==
    /\ ret' = None /\ pre' = None
    /\ sinceClose' = IF r.ok THEN 0 ELSE sinceClose

Snapshot == [ points |-> points, types |-> types, endPts |-> endPts,
              components |-> components ]

\* qCurveTo(*points): off-curve points from OffPts, then an on-curve point of
\* Pts or None; also the call without arguments
QCurveInputs ==
    LET offs(n) == UNION { [1..m -> OffPts] : m \in 0..n }
    IN  { Append(q, p) : q \in offs(MaxQCurve - 1), p \in Pts \cup {None} }
        \cup { << >> }

\* addPoint(pt, segmentType)
AddPointInputs ==
    (OffPts \X {"offcurve"}) \cup (Pts \X {"line", "qcurve", "curve"})

AddComponent ==
    /\ Len(components) < MaxComponents
    /\ \E c \in CompInputs :
          Commit(addComponent(Self, c[1], c[2]), "addComponent")
    /\ ret' = None /\ pre' = None /\ track' = None
    /\ UNCHANGED sinceClose

MoveTo ==
    /\ kind = "TTGlyphPen"
    /\ \E pt \in Pts :
          LET r == moveTo(Self, pt)
          IN  /\ Commit(r, "moveTo")
              /\ Drawn(r)
              /\ track' = IF r.ok
                          THEN Some([ points |-> points, types |-> types,
                                      endPts |-> endPts, drawn |-> << pt >>,
                                      closed |-> FALSE ])
                          ELSE None

LineTo ==
    /\ kind = "TTGlyphPen"
    /\ \E pt \in Pts :
          LET r == lineTo(Self, pt)
          IN  /\ Commit(r, "lineTo")
              /\ Drawn(r)
              /\ track' = IF track # None /\ ~track[1].closed
                          THEN Some([track[1] EXCEPT !.drawn = Append(@, pt)])
                          ELSE None

CurveTo ==
    /\ kind = "TTGlyphPen"
    /\ \E pt \in Pts :
          LET r == curveTo(Self, << pt, pt, pt >>)
          IN  Commit(r, "curveTo") /\ Drawn(r)
    /\ track' = None

QCurveTo ==
    /\ kind = "TTGlyphPen"
    /\ \E pts \in QCurveInputs :
          LET r == qCurveTo(Self, pts)
          IN  Commit(r, "qCurveTo") /\ Drawn(r)
    /\ track' = None

CloseTrack ==
    track' = IF track # None /\ ~track[1].closed
             THEN Some([track[1] EXCEPT !.closed = TRUE])
             ELSE None

ClosePath ==
    /\ kind = "TTGlyphPen"
    /\ LET r == closePath(Self)
       IN  Commit(r, "closePath") /\ Closed(r)
    /\ CloseTrack

EndPath ==
    /\ kind = "TTGlyphPen"
    /\ LET r == TTGlyphPen_endPath(Self)
       IN  Commit(r, "endPath") /\ Closed(r)
    /\ CloseTrack

\* glyph() of either pen, result g = [s, glyph]
Returned(g) ==
    /\ Commit(g.s, "glyph") 
    /\ ret' = g.glyph
    /\ pre' = Some(Snapshot)
    /\ sinceClose' = IF g.s.ok THEN 0 ELSE sinceClose
    /\ track' = None

Glyph ==
    /\ kind = "TTGlyphPen"
    /\ \E componentFlags \in ComponentFlagInputs :
          Returned(TTGlyphPen_glyph(Self, componentFlags))

BeginPath ==
    /\ kind = "TTGlyphPointPen"
    /\ LET r == beginPath(Self)
       IN  Commit(r, "beginPath") /\ Drawn(r)
    /\ track' = None

AddPoint ==
    /\ kind = "TTGlyphPointPen"
    /\ \E in \in AddPointInputs :
          LET r == addPoint(Self, in[1], in[2])
          IN  Commit(r, "addPoint") /\ Drawn(r)
    /\ track' = None

PointEndPath ==
    /\ kind = "TTGlyphPointPen"
    /\ LET r == TTGlyphPointPen_endPath(Self)
       IN  Commit(r, "endPath") /\ Closed(r)
    /\ track' = None

PointGlyph ==
    /\ kind = "TTGlyphPointPen"
    /\ \E componentFlags \in ComponentFlagInputs :
          Returned(TTGlyphPointPen_glyph(Self, componentFlags))

Next ==
    \/ AddComponent
    \/ MoveTo \/ LineTo \/ CurveTo \/ QCurveTo \/ ClosePath \/ EndPath \/ Glyph
    \/ BeginPath \/ AddPoint \/ PointEndPath \/ PointGlyph

Spec == Init /\ [][Next]_vars

\* ======================================================== properties
GlyphReturned == lastOp = "glyph" /\ ~raised

IsKnown(c) == c[1] \in KnownNames
NamesOf(comps) == [i \in 1..Len(comps) |-> comps[i][1]]
KnownPending(comps) == SelectSeq(comps, IsKnown)

\* some pending component has a raw a, b, c or d above 2 or below -2
OutOfRange(v) == v > 2 * Unit \/ v < -(2 * Unit)
AnyOutOfRange(comps) ==
    \E i \in 1..Len(comps) : \E k \in 1..4 : OutOfRange(comps[i][2][k])

\* q is the value of the 2.14 grid nearest to v (halves round up)
OnGrid(q) == q % (Unit \div F2Dot14Scale) = 0
NearestOnGrid(q, v) ==
    /\ OnGrid(q)
    /\ 2 * (q - v) <= Unit \div F2Dot14Scale
    /\ 2 * (v - q) < Unit \div F2Dot14Scale

\* the four transform values a component record stands for
StoredTransform(c) ==
    IF c.transform = None THEN << One, 0, 0, One >>
    ELSE << c.transform[1][1][1], c.transform[1][1][2],
            c.transform[1][2][1], c.transform[1][2][2] >>

\* the points drawPoints() feeds for the components comps, in order
RECURSIVE Flatten(_)
Flatten(seqs) == IF seqs = << >> THEN << >> ELSE seqs[1] \o Flatten(Tail(seqs))
OutlineOf(c) ==
    LET pts == Flatten(glyphSet[c[1]])
    IN  [i \in 1..Len(pts) |-> transformPoint(c[2], pts[i])]
RECURSIVE OutlinesOf(_)
OutlinesOf(comps) ==
    IF comps = << >> THEN << >>
    ELSE OutlineOf(comps[1]) \o OutlinesOf(Tail(comps))

\* C1: a glyph returned by glyph() never has both points and components; if
\* a component survives the glyph is composite (numberOfContours = -1) with
\* empty point, flag and end-index lists; if points were accumulated and
\* components are pending, every known pending component is decomposed and
\* no component is output.
C1_NeverPointsAndComponents ==
    GlyphReturned =>
        LET g == ret[1]
            p == pre[1]
        IN  /\ ~(g.coordinates # << >> /\ g.components # << >>)
            /\ (g.components # << >> =>
                    /\ g.numberOfContours = -1
                    /\ g.coordinates = << >>
                    /\ g.flags = << >>
                    /\ g.endPtsOfContours = << >>)
            /\ (p.points # << >> /\ p.components # << >> =>
                    /\ g.components = << >>
                    /\ g.decomposed = NamesOf(KnownPending(p.components)))

\* C2: after every successful glyph() the points, flags, end-index list and
\* pending components are empty, no sub-path is open, and the end-index list
\* of the returned glyph is not the list the pen goes on appending to.
C2_ResetAfterGlyph ==
    GlyphReturned =>
        /\ points = << >> /\ types = << >> /\ endPts = << >>
        /\ components = << >> /\ currentPath = None
        /\ (kind = "TTGlyphPen" => _isClosed(Self))
        /\ ret[1].endPtsOfContoursObj # endPtsObj

C2_Witness ==
    /\ GlyphReturned
    /\ pre[1].points # << >> /\ pre[1].components # << >>
    /\ ret[1].coordinates # << >>

\* C3: in the segment pen the closedness test is true exactly when no point
\* was appended since the last contour closed, and moveTo and glyph() succeed
\* exactly then.
C3_ClosedIffNothingAppended ==
    /\ [](kind = "TTGlyphPen" => (_isClosed(Self) <=> sinceClose = 0))
    /\ [][(kind = "TTGlyphPen" /\ lastOp' \in {"moveTo", "glyph"})
             => (raised' <=> sinceClose # 0)]_vars

\* C4: the point pen is a two-state machine: beginPath succeeds only when
\* idle and opens a sub-path, addPoint and endPath succeed only inside a
\* sub-path (endPath returns to idle), glyph() succeeds only when idle.
C4_PointPenStateMachine ==
    [][kind = "TTGlyphPointPen" =>
        /\ (lastOp' = "beginPath" =>
                /\ (~raised' <=> currentPath = None)
                /\ (~raised' => currentPath' = Some(<< >>)))
        /\ (lastOp' = "addPoint" /\ ~raised' =>
                currentPath # None /\ currentPath' # None)
        /\ (lastOp' = "endPath" =>
                /\ (~raised' <=> currentPath # None)
                /\ (~raised' => currentPath' = None))
        /\ (lastOp' = "glyph" =>
                /\ (~raised' <=> currentPath = None)
                /\ (~raised' => currentPath' = None))]_vars

C4_Witness ==
    /\ kind = "TTGlyphPointPen"
    /\ lastOp = "endPath" /\ ~raised
    /\ Len(endPts) >= 2 /\ currentPath = None

\* a contour drawn as moveTo, lineTo x (n - 1), closePath/endPath has just
\* been closed; track[1] holds the lists before the moveTo and the n points
PolygonClosed(n) ==
    /\ track # None
    /\ track[1].closed
    /\ Len(track[1].drawn) = n

\* C5: a polygon moveTo(p0), lineTo(p1) .. lineTo(pn-1), closePath with
\* n >= 2 records exactly one new contour, of n - 1 points if pn-1 = p0 and
\* of n points otherwise, whose end-index is the index of the last point.
C5_PolygonPointCount ==
    \A n \in 2..MaxSession :
        (PolygonClosed(n) /\ lastOp = "closePath") =>
            LET t == track[1]
                k == IF t.drawn[n] = t.drawn[1] THEN n - 1 ELSE n
            IN  /\ ~raised
                /\ Len(endPts) = Len(t.endPts) + 1
                /\ SubSeq(endPts, 1, Len(t.endPts)) = t.endPts
                /\ Len(points) = Len(t.points) + k
                /\ Last(endPts) = Len(points) - 1

\* C6: moveTo(p) immediately followed by closePath() or endPath() leaves the
\* point, flag and end-index lists as they were before the moveTo, for the
\* first contour of the glyph and for later ones.
C6_AnchorLeavesNoTrace ==
    PolygonClosed(1) =>
        /\ ~raised
        /\ points = track[1].points
        /\ types = track[1].types
        /\ endPts = track[1].endPts

C6_Witness ==
    /\ PolygonClosed(1)
    /\ lastOp = "endPath"
    /\ track[1].endPts # << >>
    /\ points # << >>

\* C7: with overflow handling on, one pending component (known or not)
\* with a raw a, b, c or d above 2 or below -2 makes glyph() decompose every
\* known pending component, in insertion order; the glyph returned is simple
\* and has no component.
C7_OverflowIsGlyphWide ==
    (GlyphReturned /\ handleOverflowingTransforms
        /\ AnyOutOfRange(pre[1].components)) =>
        LET g == ret[1]
            known == KnownPending(pre[1].components)
        IN  /\ g.components = << >>
            /\ g.numberOfContours = Len(g.endPtsOfContours)
            /\ g.numberOfContours >= 0
            /\ g.program # None
            /\ g.decomposed = NamesOf(known)
            /\ (kind = "TTGlyphPointPen" =>
                    g.coordinates = toInt(pre[1].points \o OutlinesOf(known)))

C7_Witness ==
    /\ GlyphReturned /\ handleOverflowingTransforms
    /\ pre[1].points = << >>
    /\ Len(pre[1].components) = 2
    /\ \E i, j \in 1..2 :
          /\ IsKnown(pre[1].components[i])
          /\ \A k \in 1..4 : ~OutOfRange(pre[1].components[i][2][k])
          /\ IsKnown(pre[1].components[j])
          /\ \E k \in 1..4 : OutOfRange(pre[1].components[j][2][k])
    /\ Len(ret[1].decomposed) = 2
    /\ ret[1].coordinates # << >>

\* C8: with overflow handling on, every a, b, c, d of a surviving component
\* whose raw value lies in (MAX_F2DOT14, 2] is stored as MAX_F2DOT14 and
\* every other one as its nearest 2.14 grid value.
C8_ClampNearTwo ==
    (GlyphReturned /\ handleOverflowingTransforms
        /\ ret[1].components # << >>) =>
        LET g == ret[1]
            known == KnownPending(pre[1].components)
        IN  /\ Len(g.components) = Len(known)
            /\ \A i \in 1..Len(known) : \A k \in 1..4 :
                  LET v == known[i][2][k]
                      stored == StoredTransform(g.components[i])[k]
                  IN  IF 32767 * (Unit \div F2Dot14Scale) < v /\ v <= 2 * Unit
                      THEN stored = 32767 * (Unit \div F2Dot14Scale)
                      ELSE NearestOnGrid(stored, v)

C8_Witness ==
    /\ GlyphReturned /\ handleOverflowingTransforms
    /\ \E i \in 1..Len(ret[1].components) :
          /\ pre[1].components[i][2][1] = 2 * Unit
          /\ StoredTransform(ret[1].components[i])[1] = MAX_F2DOT14
          /\ pre[1].components[i][2][2] = MAX_F2DOT14 + 1
          /\ StoredTransform(ret[1].components[i])[2] = MAX_F2DOT14

\* C9: with overflow handling on, every transform value of every component
\* returned by glyph() is on the 2.14 grid, at least -2.0 and at most
\* MAX_F2DOT14 (below +2.0).
C9_TransformsEncodable ==
    (GlyphReturned /\ handleOverflowingTransforms) =>
        \A i \in 1..Len(ret[1].components) :
            ret[1].components[i].transform # None =>
                \A k \in 1..4 :
                    LET v == StoredTransform(ret[1].components[i])[k]
                    IN  /\ OnGrid(v)
                        /\ -(2 * Unit) <= v
                        /\ v < 2 * Unit
                        /\ v <= 32767 * (Unit \div F2Dot14Scale)

C9_Witness ==
    /\ GlyphReturned /\ handleOverflowingTransforms
    /\ Len(ret[1].components) = 2
    /\ \E i \in 1..2 :
          /\ ret[1].components[i].transform # None
          /\ \E k \in 1..4 : StoredTransform(ret[1].components[i])[k] = -(2 * Unit)
          /\ \E k \in 1..4 : pre[1].components[i][2][k] = MAX_F2DOT14 + 2

\* C10: the end-index list is strictly increasing, starts at >= 0 and ends
\* at a valid point index; only the reset of a successful glyph() removes a
\* recorded end-index or a point of an already closed contour.
EndPtsWellFormed ==
    /\ \A i \in 1..Len(endPts) : endPts[i] >= 0
    /\ \A i \in 1..(Len(endPts) - 1) : endPts[i] < endPts[i + 1]
    /\ (endPts # << >> => Last(endPts) <= Len(points) - 1)

ClosedContoursKept ==
    /\ Len(endPts') >= Len(endPts)
    /\ SubSeq(endPts', 1, Len(endPts)) = endPts
    /\ (endPts # << >> =>
            /\ Len(points') >= Last(endPts) + 1
            /\ SubSeq(points', 1, Last(endPts) + 1)
                   = SubSeq(points, 1, Last(endPts) + 1))

C10_EndPtsIncreasingAndKept ==
    /\ []EndPtsWellFormed
    /\ [][lastOp' # "glyph" => ClosedContoursKept]_vars

\* C11: a pending component whose name the glyph set does not know never
\* makes glyph() fail and yields neither a component record nor points;
\* the known ones are still resolved; a glyph with no points whose pending
\* components are all unknown is returned simple with zero contours.
ResolvedNames(g) ==
    [i \in 1..Len(g.components) |-> g.components[i].glyphName] \o g.decomposed

C11_UnknownComponentDropped ==
    /\ (lastOp = "glyph" /\ raised =>
            IF kind = "TTGlyphPen" THEN ~_isClosed(Self)
            ELSE currentPath # None)
    /\ (GlyphReturned =>
            LET g == ret[1]
                p == pre[1]
            IN  /\ ResolvedNames(g) = NamesOf(KnownPending(p.components))
                /\ (g.components = << >> \/ g.decomposed = << >>)
                /\ (KnownPending(p.components) = << >> =>
                        /\ g.components = << >>
                        /\ g.coordinates = toInt(p.points)
                        /\ g.numberOfContours = Len(p.endPts))
                /\ (KnownPending(p.components) = << >> /\ p.points = << >> =>
                        /\ g.numberOfContours = 0
                        /\ g.endPtsOfContours = << >>
                        /\ g.program # None))

C11_Witness ==
    /\ GlyphReturned
    /\ pre[1].points = << >>
    /\ Len(pre[1].components) = 2
    /\ \A i \in 1..2 : ~IsKnown(pre[1].components[i])
    /\ ret[1].numberOfContours = 0

\* C12: with overflow handling off, a glyph() called with no accumulated
\* points decomposes nothing: every known pending component comes back as a
\* component record, in order, and each of its a, b, c, d is the value of the
\* 2.14 grid nearest to the raw one, never clamped, whatever its size.
C12_NoOverflowHandlingKeepsAll ==
    GlyphReturned /\ ~handleOverflowingTransforms /\ pre[1].points = << >> =>
        LET g == ret[1]
            known == KnownPending(pre[1].components)
        IN  /\ g.decomposed = << >>
            /\ g.coordinates = << >>
            /\ Len(g.components) = Len(known)
            /\ \A i \in 1..Len(known) :
                  /\ g.components[i].glyphName = known[i][1]
                  /\ \A k \in 1..4 :
                        NearestOnGrid(StoredTransform(g.components[i])[k],
                                      known[i][2][k])

C12_Witness ==
    /\ GlyphReturned /\ ~handleOverflowingTransforms /\ pre[1].points = << >>
    /\ AnyOutOfRange(pre[1].components)
    /\ \E i \in 1..Len(ret[1].components) :
          /\ StoredTransform(ret[1].components[i])[1] = 3 * Unit
          /\ StoredTransform(ret[1].components[i])[2] = Two

\* C13: a component that survives is emitted without a transform exactly
\* when the values of the 2.14 grid nearest to its raw a, b, c, d are
\* (1, 0, 0, 1); otherwise it carries a transform, and that transform is not
\* the identity (clamping comes after the test and never yields it).
Identity == << One, 0, 0, One >>
QuantizesToIdentity(t) == \A k \in 1..4 : NearestOnGrid(Identity[k], t[k])

C13_IdentityTransformOmitted ==
    GlyphReturned /\ ret[1].components # << >> =>
        LET g == ret[1]
            known == KnownPending(pre[1].components)
        IN  /\ Len(g.components) = Len(known)
            /\ \A i \in 1..Len(known) :
                  /\ g.components[i].glyphName = known[i][1]
                  /\ g.components[i].transform = None
                        <=> QuantizesToIdentity(known[i][2])
                  /\ g.components[i].transform # None =>
                        StoredTransform(g.components[i]) # Identity

C13_Witness ==
    /\ GlyphReturned
    /\ Len(ret[1].components) = 2
    /\ ret[1].components[1].transform = None
    /\ KnownPending(pre[1].components)[1][2][1] # One
    /\ ret[1].components[2].transform # None
    /\ handleOverflowingTransforms

\* C14 as stated: a single-point contour closed by closePath as the very
\* first contour of the glyph is not treated as an anchor, that is, it is
\* not the case that its point is removed and no end-index is recorded.
C14_FirstContourNotAnchor ==
    (PolygonClosed(1) /\ lastOp = "closePath"
        /\ track[1].points = << >> /\ track[1].endPts = << >>) =>
        ~(~raised /\ points = << >> /\ endPts = << >>)

\* C14: closePath on a contour that received exactly one point treats it as
\* an anchor whether or not it is the first contour of the glyph: the call
\* succeeds, removes that point and its flag and records no end-index.
C14_AnchorAlsoFirstContour ==
    [][(kind = "TTGlyphPen" /\ lastOp' = "closePath" /\ sinceClose = 1) =>
            /\ ~raised'
            /\ points' = Front(points)
            /\ types' = Front(types)
            /\ endPts' = endPts]_vars

C14_Witness ==
    /\ PolygonClosed(1) /\ lastOp = "closePath" /\ ~raised
    /\ track[1].points = << >> /\ track[1].endPts = << >>
    /\ points = << >> /\ endPts = << >>

\* C15: in the point adapter the open sub-path holds exactly the points it
\* received, which are the last ones of the point list; endPath keeps every
\* point and flag, adds no end-index for a sub-path of zero points and, for
\* k >= 1 points (k = 1 included), exactly one: the index of the last point.
SubPathIsTail ==
    (kind = "TTGlyphPointPen" /\ currentPath # None) =>
        LET k == Len(currentPath[1])
        IN  /\ k <= Len(points)
            /\ SubSeq(points, Len(points) - k + 1, Len(points)) = currentPath[1]
            /\ (endPts # << >> => Last(endPts) = Len(points) - k - 1)
            /\ (endPts = << >> => Len(points) = k)

C15_PointEndPathRecords ==
    /\ []SubPathIsTail
    /\ [][(kind = "TTGlyphPointPen" /\ lastOp' = "endPath" /\ ~raised') =>
            /\ currentPath # None
            /\ currentPath' = None
            /\ points' = points
            /\ types' = types
            /\ endPts' = IF currentPath[1] = << >> THEN endPts
                         ELSE Append(endPts, Len(points) - 1)]_vars

C15_Witness ==
    /\ kind = "TTGlyphPointPen" /\ lastOp = "endPath" /\ ~raised
    /\ Len(points) = 2
    /\ endPts = << 0, 1 >>

\* C16: a call that fails leaves points, flags, end-indices, pending
\* components and the sub-path state as they were; and the calls the
\* contract forbids do fail: moveTo or glyph() with an open contour, curveTo,
\* qCurveTo without arguments, closePath/endPath with no points at all,
\* beginPath inside a sub-path, addPoint or endPath outside one, addPoint
\* with a cubic role, glyph() with a sub-path open.
Accumulators == << points, types, endPts, endPtsObj, components, currentPath >>

\* the calls whose failure depends on their argument, applied in this state
ArgumentRejected ==
    /\ kind = "TTGlyphPen" => qCurveTo(Self, << >>) = Raise(Self)
    /\ kind = "TTGlyphPointPen" =>
          \A pt \in Pts : addPoint(Self, pt, "curve") = Raise(Self)

\* the call named by lastOp' is one the contract forbids in this state
Forbidden ==
    IF kind = "TTGlyphPen"
    THEN \/ lastOp' \in {"moveTo", "glyph"} /\ ~_isClosed(Self)
         \/ lastOp' = "curveTo"
         \/ lastOp' \in {"closePath", "endPath"} /\ points = << >>
    ELSE \/ lastOp' \in {"beginPath", "glyph"} /\ currentPath # None
         \/ lastOp' \in {"addPoint", "endPath"} /\ currentPath = None

C16_FailureChangesNothing ==
    /\ []ArgumentRejected
    /\ [][/\ raised' => UNCHANGED Accumulators
          /\ Forbidden => raised']_vars

C16_Witness ==
    /\ kind = "TTGlyphPointPen" /\ lastOp = "addPoint" /\ raised
    /\ currentPath # None
    /\ Len(currentPath[1]) = 1
    /\ Len(points) = 2

\* the transformed contours of the components comps, in order
RECURSIVE ContoursOf(_)
ContoursOf(comps) ==
    IF comps = << >> THEN << >>
    ELSE LET cs == glyphSet[comps[1][1]]
         IN  [j \in 1..Len(cs) |->
                [i \in 1..Len(cs[j]) |-> transformPoint(comps[1][2], cs[j][i])]]
             \o ContoursOf(Tail(comps))

\* the point lists contours can leave when each one is appended whole and
\* closePath then removes at most its last point
RECURSIVE SegmentOutlines(_)
SegmentOutlines(contours) ==
    IF contours = << >> THEN { << >> }
    ELSE { h \o t : h \in { contours[1], Front(contours[1]) },
                    t \in SegmentOutlines(Tail(contours)) }

\* C17: addComponent appends its pair to the pending list, repeated pairs
\* included; when glyph() decomposes nothing, its components are the known
\* pending ones, one record each, in the order added; when it decomposes,
\* the outlines follow the glyph's own points, component after component in
\* the order added (the point adapter keeps every outline point, the segment
\* adapter's closePath may drop the last point of a contour).
C17_InsertionOrderNoDedup ==
    /\ [](GlyphReturned =>
            LET g == ret[1]
                known == KnownPending(pre[1].components)
            IN  IF g.decomposed = << >>
                THEN /\ Len(g.components) = Len(known)
                     /\ \A i \in 1..Len(known) :
                           g.components[i] =
                               MakeComponent(Self, known[i][1], known[i][2],
                                             g.components[i].flags)
                     /\ g.coordinates = toInt(pre[1].points)
                ELSE /\ g.decomposed = NamesOf(known)
                     /\ IF kind = "TTGlyphPointPen"
                        THEN g.coordinates =
                                toInt(pre[1].points \o OutlinesOf(known))
                        ELSE \E o \in SegmentOutlines(ContoursOf(known)) :
                                g.coordinates = toInt(pre[1].points \o o))
    /\ [][lastOp' = "addComponent" =>
            /\ ~raised'
            /\ \E c \in CompInputs : components' = Append(components, c)
            /\ UNCHANGED << points, types, endPts >>]_vars

C17_Witness ==
    /\ GlyphReturned
    /\ Len(pre[1].components) = 2
    /\ pre[1].components[1] = pre[1].components[2]
    /\ IsKnown(pre[1].components[1])
    /\ Len(ret[1].components) = 2
    /\ ret[1].components[1] = ret[1].components[2]

\* what qCurveTo(p1, ..., pn) is to append: p1..pn-1 off-curve, then pn
\* on-curve unless it is None
QCurvePoints(pts) ==
    Front(pts) \o (IF Last(pts) # None THEN << Last(pts) >> ELSE << >>)
QCurveFlags(pts) ==
    [i \in 1..(Len(pts) - 1) |-> 0] \o
        (IF Last(pts) # None THEN << 1 >> ELSE << >>)

\* the points appended since the last close are all off-curve
OpenContourAllOffCurve ==
    /\ sinceClose >= 1
    /\ sinceClose <= Len(types)
    /\ \A i \in (Len(types) - sinceClose + 1)..Len(types) : types[i] = 0

\* the contour the code closes (from the last end-index on) is the one drawn
OpenContourAtStart ==
    IF endPts = << >> THEN Len(points) = sinceClose
    ELSE Last(endPts) = Len(points) - sinceClose - 1

\* C18: in the segment adapter qCurveTo(p1, ..., pn), n >= 1, succeeds and
\* appends p1..pn-1 with flag 0 and then pn with flag 1 only if pn is not
\* None (n - 1 points otherwise), and nothing else changes; a contour of two
\* or more points, all off-curve, is closed by closePath without failure
\* and recorded as one more end-index.
C18_QCurveToAppends ==
    /\ [](kind = "TTGlyphPen" =>
            \A pts \in QCurveInputs \ { << >> } :
                LET r == qCurveTo(Self, pts)
                IN  /\ r.ok
                    /\ r.points = points \o QCurvePoints(pts)
                    /\ r.types = types \o QCurveFlags(pts)
                    /\ Len(r.points) - Len(points) =
                          IF Last(pts) = None THEN Len(pts) - 1 ELSE Len(pts)
                    /\ r.endPts = endPts
                    /\ r.components = components)
    /\ [][(kind = "TTGlyphPen" /\ lastOp' = "qCurveTo" /\ ~raised') =>
            /\ \E pts \in QCurveInputs \ { << >> } :
                  /\ points' = points \o QCurvePoints(pts)
                  /\ types' = types \o QCurveFlags(pts)
            /\ UNCHANGED << endPts, components >>]_vars
    /\ [][(kind = "TTGlyphPen" /\ lastOp' = "closePath" /\ sinceClose >= 2
            /\ OpenContourAllOffCurve /\ OpenContourAtStart) =>
            /\ ~raised'
            /\ Len(endPts') = Len(endPts) + 1
            /\ Last(endPts') = Len(points') - 1]_vars

C18_Witness ==
    /\ kind = "TTGlyphPen" /\ lastOp = "closePath" /\ ~raised
    /\ Len(endPts) = 2
    /\ Last(endPts) = Len(points) - 1
    /\ \A i \in 1..Len(types) : types[i] = 0

\* n flags of value 1 (decomposed outlines arrive as on-curve points)
OnCurveFlags(n) == [i \in 1..n |-> 1]

\* how one call changes the point list and the flag list together
FlagsFollowPoints ==
    IF raised' \/ lastOp' \in {"addComponent", "beginPath", "curveTo"}
        \/ (kind = "TTGlyphPointPen" /\ lastOp' = "endPath")
    THEN UNCHANGED << points, types >>
    ELSE IF lastOp' \in {"moveTo", "lineTo"}
    THEN \E pt \in Pts : points' = Append(points, pt) /\ types' = Append(types, 1)
    ELSE IF lastOp' = "qCurveTo"
    THEN \E pts \in QCurveInputs \ { << >> } :
            /\ points' = points \o QCurvePoints(pts)
            /\ types' = types \o QCurveFlags(pts)
    ELSE IF lastOp' = "addPoint"
    THEN \E in \in AddPointInputs :
            /\ points' = Append(points, in[1])
            /\ types' = Append(types, IF in[2] = "offcurve" THEN 0 ELSE 1)
    ELSE IF lastOp' \in {"closePath", "endPath"}
    THEN \/ UNCHANGED << points, types >>
         \/ points' = Front(points) /\ types' = Front(types)
    ELSE /\ lastOp' = "glyph"
         /\ points' = << >> /\ types' = << >>
         /\ LET g == ret'[1]
                n == Len(g.coordinates) - Len(points)
            IN  /\ n >= 0
                /\ SubSeq(g.coordinates, 1, Len(points)) = toInt(points)
                /\ g.flags = types \o OnCurveFlags(n)

\* C19: in every reachable state the flag list is as long as the point
\* list; every call appends to, or removes from the end of, both lists
\* together, each point with the flag of the call that appended it; so a
\* glyph returned has one flag per coordinate.
C19_OneFlagPerPoint ==
    /\ [](/\ Len(types) = Len(points)
          /\ \A i \in 1..Len(types) : types[i] \in {0, 1}
          /\ GlyphReturned => Len(ret[1].flags) = Len(ret[1].coordinates))
    /\ [][FlagsFollowPoints]_vars

C19_Witness ==
    /\ PolygonClosed(2) /\ lastOp = "closePath" /\ ~raised
    /\ Len(points) = Len(track[1].points) + 1
    /\ Len(types) = Len(points)
    /\ track[1].points # << >>

\* end-indices strictly increasing, the last one that of the last of n points
Covers(ends, n) ==
    /\ \A i \in 1..Len(ends) : ends[i] >= 0
    /\ \A i \in 1..(Len(ends) - 1) : ends[i] < ends[i + 1]
    /\ IF n = 0 THEN ends = << >> ELSE ends # << >> /\ Last(ends) = n - 1

\* the number of sub-paths drawPoints() feeds for the glyphs named
RECURSIVE SubPathsOf(_)
SubPathsOf(names) ==
    IF names = << >> THEN 0
    ELSE Len(glyphSet[names[1]]) + SubPathsOf(Tail(names))

\* C20: in the point adapter with no sub-path open either the point list
\* and the end-index list are both empty or the last end-index is the index
\* of the last point, and end-indices increase; each endPath of a non-empty
\* sub-path adds one end-index and nothing else does; so a simple glyph it
\* returns has as many contours as non-empty sub-paths were drawn (its own
\* and those of decomposed outlines) and its contours cover all its points.
C20_IdlePointsAllInContours ==
    /\ []((kind = "TTGlyphPointPen" /\ currentPath = None) =>
            Covers(endPts, Len(points)))
    /\ []((kind = "TTGlyphPointPen" /\ GlyphReturned
            /\ ret[1].components = << >>) =>
            LET g == ret[1]
            IN  /\ g.numberOfContours =
                      Len(pre[1].endPts) + SubPathsOf(g.decomposed)
                /\ g.numberOfContours = Len(g.endPtsOfContours)
                /\ Covers(g.endPtsOfContours, Len(g.coordinates)))
    /\ [][(kind = "TTGlyphPointPen" /\ lastOp' # "glyph") =>
            Len(endPts') = Len(endPts) +
                (IF lastOp' = "endPath" /\ ~raised' /\ currentPath[1] # << >>
                 THEN 1 ELSE 0)]_vars

C20_Witness ==
    /\ kind = "TTGlyphPointPen" /\ GlyphReturned
    /\ Len(pre[1].endPts) = 2
    /\ Len(ret[1].decomposed) = 1
    /\ ret[1].numberOfContours = 4
    /\ Len(ret[1].coordinates) = 5

====
